---- MODULE Spec2Model ----
(***************************************************************************)
(* Model of the tile-pyramid generator of maps_core/generate_tiles.py:     *)
(* auto_crop_padding (the geometry resolver) and generate_tiles (canvas    *)
(* padder, pyramid builder, tile slicer, path scheme).                     *)
(*                                                                         *)
(* A PIL image is modelled by the expression that built it (open, crop,    *)
(* new, paste, resize) together with its size; Pixel gives the value PIL   *)
(* stores at a coordinate of such an image.  Source rasters are RGB, so    *)
(* pasting into an 'RGB' canvas converts nothing.                          *)
(*                                                                         *)
(* main's loop over the selected maps (tile-directory prompt, source       *)
(* acquisition, the call of generate_tiles and its two outcomes) is        *)
(* modelled around it; the file system is the set of directories and the   *)
(* tile files below the script's directory.                                *)
(***************************************************************************)
EXTENDS Integers, Sequences, FiniteSets, TLC

\* ------------------------------------------------------------ constants
TILE_SIZE == 256

\* the near-equality tolerance of auto_crop_padding
CROP_TOLERANCE == 100

\* the fill colour of Image.new('RGB', size, (0, 0, 0))
BACKGROUND == <<0, 0, 0>>

\* ---------------------------------------------------------------- bounds
\* largest max_zoom of a map configuration
MaxZoomBound == 2

\* the geometry inputs: 1..MaxSmallDim, and the sizes within 1 of a
\* multiple (up to MaxTolMult) of the tolerance
MaxSmallDim == 4

MaxTolMult == 2

\* ------------------------------------------------------- python helpers
Abs(n) == IF n < 0 THEN 0 - n ELSE n

Min(a, b) == IF a < b THEN a ELSE b

\* int.bit_length() of a non-negative integer
RECURSIVE BitLength(_)
BitLength(n) == IF n <= 0 THEN 0 ELSE 1 + BitLength(n \div 2)

\* a / b rounded to the nearest integer instead of truncated
IntOfQuotientRounded(a, b) == (2 * a + b) \div (2 * b)

\* int(a / b) for a >= 0, b > 0: the true quotient truncated
IntOfQuotient(a, b) == a \div b

\* a // b: the quotient floored instead of ceiled
CeilOfQuotientFloored(a, b) == a \div b

\* math.ceil(a / b) for a >= 0, b > 0
CeilOfQuotient(a, b) == IF a % b = 0 THEN a \div b ELSE (a \div b) + 1

\* ------------------------------------------------------------ PIL images
NoImage == [op |-> "none", w |-> 0, h |-> 0]

\* Image.open of a w x h raster file whose pixels are black (0, 0, 0) in
\* the rectangle [0, dx) x [0, dy) and coloured elsewhere.  Image.open reads
\* the header only: data is "ok", or "truncated" when the first load of the
\* pixel data (crop, paste, resize) raises
OpenRaster(w, h, dx, dy, data) ==
    [op |-> "open", w |-> w, h |-> h, dx |-> dx, dy |-> dy, data |-> data]

\* Image.open of a decoded w x h raster
OpenImage(w, h) == OpenRaster(w, h, 0, 0, "ok")

\* Image.new('RGB', (w, h), (0, 0, 0))
NewImage(w, h) == [op |-> "new", w |-> w, h |-> h]

\* img.crop(box), box = (x1, y1, x2, y2)
CropImage(img, box) ==
    [op |-> "crop", w |-> box[3] - box[1], h |-> box[4] - box[2],
     src |-> img, x0 |-> box[1], y0 |-> box[2]]

\* dst.paste(src, (x0, y0)): dst with src copied at (x0, y0)
PasteImage(dst, src, x0, y0) ==
    [op |-> "paste", w |-> dst.w, h |-> dst.h, src |-> src, dst |-> dst,
     x0 |-> x0, y0 |-> y0]

\* img.resize((w, h), LANCZOS)
ResizeImage(img, w, h) == [op |-> "resize", w |-> w, h |-> h, src |-> img]

\* image.size
Size(img) == <<img.w, img.h>>

\* The value of pixel (x, y) of an image, 0 <= x < img.w, 0 <= y < img.h.
\* A decoded raster carries one colour per coordinate, <<1, x, y>>, outside
\* its black rectangle; a resampled raster carries the filter's value for
\* that coordinate, <<2, x, y>>, which is black where every source pixel
\* the coordinate stands for is black; crop reads the source at the box
\* offset (black outside the source); paste reads the pasted image inside
\* its extent and the destination elsewhere.
RECURSIVE Pixel(_, _, _)
Pixel(img, x, y) ==
    CASE img.op = "open" ->
            IF x < img.dx /\ y < img.dy THEN BACKGROUND ELSE <<1, x, y>>
      [] img.op = "new" -> BACKGROUND
      [] img.op = "resize" ->
            LET sx == img.src.w \div img.w
                sy == img.src.h \div img.h
            IN  IF \A i \in 0..(sx - 1), j \in 0..(sy - 1) :
                      Pixel(img.src, x * sx + i, y * sy + j) = BACKGROUND
                THEN BACKGROUND
                ELSE <<2, x, y>>
      [] img.op = "crop" ->
            IF img.x0 + x < img.src.w /\ img.y0 + y < img.src.h
            THEN Pixel(img.src, img.x0 + x, img.y0 + y)
            ELSE BACKGROUND
      [] img.op = "paste" ->
            IF /\ img.x0 <= x /\ x < img.x0 + img.src.w
               /\ img.y0 <= y /\ y < img.y0 + img.src.h
            THEN Pixel(img.src, x - img.x0, y - img.y0)
            ELSE Pixel(img.dst, x, y)
      [] OTHER -> BACKGROUND

\* is_black of lines 218-223 for an image whose first pixel decides it
IsBlackAtOrigin(t) == Pixel(t, 0, 0) = BACKGROUND

\* is_black of lines 218-223: every band's extrema are (0, 0)
IsBlack(t) ==
    \A x \in 0..(t.w - 1), y \in 0..(t.h - 1) : Pixel(t, x, y) = BACKGROUND

\* ---------------------------------------------------- auto_crop_padding
\* no declared size: generate_tiles(..., map_size=None)
NoMapSize == <<>>

NoCrop == <<>>

\* auto_crop_padding with the tolerance test passing when either axis is
\* close (or instead of and)
AutoCropBoxEitherAxis(width, height, map_size) ==
    LET expected_width == map_size[1]
        expected_height == map_size[2]
    IN  IF Abs(width - expected_width) < CROP_TOLERANCE
           \/ Abs(height - expected_height) < CROP_TOLERANCE
        THEN NoCrop
        ELSE IF width = height /\ expected_width # expected_height
        THEN IF expected_width > expected_height
             THEN <<0, 0, width,
                    IntOfQuotient(width * expected_height, expected_width)>>
             ELSE <<0, 0,
                    IntOfQuotient(height * expected_width, expected_height),
                    height>>
        ELSE NoCrop

\* the crop_box auto_crop_padding computes for a width x height raster, or
\* NoCrop when it returns the image as it is
AutoCropBox(width, height, map_size) ==
    LET expected_width == map_size[1]
        expected_height == map_size[2]
    IN  IF Abs(width - expected_width) < CROP_TOLERANCE
           /\ Abs(height - expected_height) < CROP_TOLERANCE
        THEN NoCrop
        ELSE IF width = height /\ expected_width # expected_height
        THEN IF expected_width > expected_height
             THEN <<0, 0, width,
                    IntOfQuotient(width * expected_height, expected_width)>>
             ELSE <<0, 0,
                    IntOfQuotient(height * expected_width, expected_height),
                    height>>
        ELSE NoCrop

auto_crop_padding(img, map_size) ==
    LET box == AutoCropBox(img.w, img.h, map_size)
    IN  IF box = NoCrop THEN img ELSE CropImage(img, box)

\* ------------------------------------------------------- generate_tiles
\* 1 << n.bit_length(): the bit length taken of n instead of n - 1
NextPow2OfN(n) == IF n > 0 THEN 2 ^ BitLength(n) ELSE 1

\* 1 << (n - 1).bit_length() if n > 0 else 1
NextPow2(n) == IF n > 0 THEN 2 ^ BitLength(n - 1) ELSE 1

\* the canvas padded to a square of the larger power of two
PadToCanvasSquare(img, next_width, next_height) ==
    LET side == IF next_width > next_height THEN next_width ELSE next_height
    IN  IF img.w # side \/ img.h # side
        THEN PasteImage(NewImage(side, side), img, 0, 0)
        ELSE img

\* the canvas of the padding step
PadToCanvas(img, next_width, next_height) ==
    IF img.w # next_width \/ img.h # next_height
    THEN PasteImage(NewImage(next_width, next_height), img, 0, 0)
    ELSE img

VARIABLES
    pc,            \* the statement main or generate_tiles is at
    raster,        \* the source image handed to generate_tiles
    map_name,      \* the namespace handed to generate_tiles
    map_size,      \* declared size, or NoMapSize
    max_zoom,
    crop_box,      \* the box auto_crop_padding cropped to, or NoCrop
    cropped,       \* image after the auto-crop step
    image,         \* image (the canvas once padded)
    width, height,
    dirs,          \* the directories that exist, as paths
    files,         \* the tile files that exist: path -> image saved there
    saved,         \* the tile.save calls that returned, in order:
                   \* <<zoom, col, row>>
    reported,      \* the tiles printed as "Black/empty tile"
    failed,        \* the tiles whose tile.save raised
    resized,       \* the rasters Image.resize has returned
    closed,        \* the rasters close() was called on
    error,         \* what generate_tiles raised: "none", "resize", "decode",
                   \* "save"
    zoom, col, row,
    scaled_width, scaled_height,
    scaled_img,    \* the level raster
    cols, rows,
    block,         \* (x1, y1, x2, y2) of the tile being extracted
    tile,
    maps_to_process,   \* main: the selected registry entries
    args_image,        \* main: the --image argument, or NoImage
    map_index,         \* main: position of map_data in maps_to_process
    outcomes,          \* main: what was printed last for each map, in order
    deleted,           \* main: the namespaces printed as "Deleted"
    run,               \* how many times generate_tiles was entered
    first,             \* the outputs the first of two runs left
    deep_clone,        \* deep_clone_server.py: a run of its main block
    enrichment,        \* mod_manager.py: a WorkshopEnrichment instance and
                       \* the HTTP requests made for it
    crawler,           \* extract_mods_workshop.py: a run of its main
    comparison         \* mod_manager.py: a call of unified_comparison

geomVars == <<raster, map_size, max_zoom, crop_box, cropped, image,
              width, height>>

levelVars == <<zoom, scaled_width, scaled_height, scaled_img, cols, rows>>

tileVars == <<block, tile>>

\* what a run of generate_tiles printed, raised, allocated and released
runVars == <<map_name, reported, failed, resized, closed, error>>

mainVars == <<maps_to_process, args_image, map_index, outcomes, deleted>>

rerunVars == <<run, first>>

\* the other programs of the repository
toolVars == <<deep_clone, enrichment, crawler, comparison>>

\* a program that is not running
Idle == [pc |-> "idle"]

ToolsIdle ==
    /\ deep_clone = Idle
    /\ enrichment = Idle
    /\ crawler = Idle
    /\ comparison = Idle

vars == <<pc, geomVars, dirs, files, saved, levelVars, col, row, tileVars,
          runVars, mainVars, rerunVars, toolVars>>

\* the first load of the pixel data of a lazily opened file raises
Truncated(img) == img.op = "open" /\ img.data = "truncated"

\* line 154-155: auto_crop_padding reaches image.crop
WillCrop ==
    /\ map_size # NoMapSize
    /\ AutoCropBox(raster.w, raster.h, map_size) # NoCrop

\* lines 153-158
AutoCrop ==
    /\ pc = "crop"
    /\ ~(WillCrop /\ Truncated(raster))
    /\ crop_box' = IF map_size # NoMapSize
                   THEN AutoCropBox(raster.w, raster.h, map_size)
                   ELSE NoCrop
    /\ cropped' = IF map_size # NoMapSize
                  THEN auto_crop_padding(raster, map_size)
                  ELSE raster
    /\ image' = cropped'
    /\ width' = cropped'.w
    /\ height' = cropped'.h
    /\ pc' = "pad"
    /\ UNCHANGED <<raster, map_size, max_zoom>>
    /\ UNCHANGED <<dirs, files, saved, levelVars, col, row, tileVars>>
    /\ UNCHANGED <<runVars, mainVars, rerunVars, toolVars>>

\* line 125: image.crop loads the pixel data, which raises
CropLoadRaises ==
    /\ pc = "crop"
    /\ WillCrop /\ Truncated(raster)
    /\ error' = "decode"
    /\ pc' = "raised"
    /\ UNCHANGED <<geomVars, dirs, files, saved, levelVars, col, row,
                   tileVars, map_name, reported, failed, resized, closed>>
    /\ UNCHANGED <<mainVars, rerunVars, toolVars>>

\* the padding step of lines 164-169 is taken
WillPad == width # NextPow2(width) \/ height # NextPow2(height)

\* lines 160-171
PadCanvas ==
    /\ pc = "pad"
    /\ ~(WillPad /\ Truncated(image))
    /\ LET next_width == NextPow2(width)
           next_height == NextPow2(height)
       IN  /\ image' = PadToCanvas(image, next_width, next_height)
           /\ width' = next_width
           /\ height' = next_height
    /\ pc' = "mkdir"
    /\ UNCHANGED <<raster, map_size, max_zoom, crop_box, cropped>>
    /\ UNCHANGED <<dirs, files, saved, levelVars, col, row, tileVars>>
    /\ UNCHANGED <<runVars, mainVars, rerunVars, toolVars>>

\* line 167: padded.paste loads the pixel data, which raises
PasteLoadRaises ==
    /\ pc = "pad"
    /\ WillPad /\ Truncated(image)
    /\ error' = "decode"
    /\ pc' = "raised"
    /\ UNCHANGED <<geomVars, dirs, files, saved, levelVars, col, row,
                   tileVars, map_name, reported, failed, resized, closed>>
    /\ UNCHANGED <<mainVars, rerunVars, toolVars>>

\* output_dir, Path(__file__).parent / "tiles", as a path below the
\* script's directory
OutputDir == <<"tiles">>

\* output_dir / f"{namespace}_sat"
TileDir(namespace) == Append(OutputDir, namespace \o "_sat")

\* paths of generate_tiles
MapDir == TileDir(map_name)

ZoomDir(z) == Append(MapDir, ToString(z))

ColDir(z, c) == Append(ZoomDir(z), ToString(c))

\* the tile path with column and row swapped: {z}/{row}/{col}.webp
TilePathRowFirst(z, c, r) == Append(ColDir(z, r), ToString(c) \o ".webp")

\* the tile path without the column directory: {z}/{row}.webp
TilePathInZoomDir(z, c, r) == Append(ZoomDir(z), ToString(r) \o ".webp")

TilePath(z, c, r) == Append(ColDir(z, c), ToString(r) \o ".webp")

\* the level size with the zoom levels in descending order of size
ScaledSizeDescending(n, mz, z) == n \div (2 ^ z)

\* the level size of a pyramid whose every level has the canvas size
ScaledSizeUnscaled(n, mz, z) == n

\* width // (2 ** (max_zoom - zoom))
ScaledSize(n, mz, z) == n \div (2 ^ (mz - z))

\* the level raster resampled at every level, the last one included
LevelRasterResampled(canvas, sw, sh, native) == ResizeImage(canvas, sw, sh)

\* lines 187-191: the raster of a level of size sw x sh; native is
\* zoom = max_zoom
LevelRaster(canvas, sw, sh, native) ==
    IF native THEN canvas ELSE ResizeImage(canvas, sw, sh)

\* the tile bounds without the min() against the level size
TileBoundsUnclamped(c, r, lw, lh) ==
    LET x1 == c * TILE_SIZE
        y1 == r * TILE_SIZE
    IN  <<x1, y1, x1 + TILE_SIZE, y1 + TILE_SIZE>>

\* (x1, y1, x2, y2) of tile (c, r) of a level of size lw x lh
TileBounds(c, r, lw, lh) ==
    LET x1 == c * TILE_SIZE
        y1 == r * TILE_SIZE
    IN  <<x1, y1, Min(x1 + TILE_SIZE, lw), Min(y1 + TILE_SIZE, lh)>>

\* the partial tile pasted at the far corner of the padded tile
PadTileImageFarCorner(t) ==
    IF Size(t) # <<TILE_SIZE, TILE_SIZE>>
    THEN PasteImage(NewImage(TILE_SIZE, TILE_SIZE), t,
                    TILE_SIZE - t.w, TILE_SIZE - t.h)
    ELSE t

\* the tile handed to tile.save
PadTileImage(t) ==
    IF Size(t) # <<TILE_SIZE, TILE_SIZE>>
    THEN PasteImage(NewImage(TILE_SIZE, TILE_SIZE), t, 0, 0)
    ELSE t

\* the map directory made without exist_ok, on a directory that exists
MakeMapDirExclusive ==
    /\ pc = "mkdir"
    /\ dirs' = dirs \cup {OutputDir, MapDir}
    /\ zoom' = 0
    /\ pc' = IF MapDir \in dirs THEN "raised" ELSE "zoom_loop"
    /\ UNCHANGED <<geomVars, files, saved, scaled_width, scaled_height,
                   scaled_img, cols, rows, col, row, tileVars>>
    /\ UNCHANGED <<runVars, mainVars, rerunVars, toolVars>>

\* lines 173-175
MakeMapDir ==
    /\ pc = "mkdir"
    /\ dirs' = dirs \cup {OutputDir, MapDir}
    /\ zoom' = 0
    /\ pc' = "zoom_loop"
    /\ UNCHANGED <<geomVars, files, saved, scaled_width, scaled_height,
                   scaled_img, cols, rows, col, row, tileVars>>
    /\ UNCHANGED <<runVars, mainVars, rerunVars, toolVars>>

\* lines 178-201, a level whose raster can be made
BeginLevel ==
    /\ pc = "zoom_loop"
    /\ zoom <= max_zoom
    /\ LET sw == ScaledSize(width, max_zoom, zoom)
           sh == ScaledSize(height, max_zoom, zoom)
       IN  /\ zoom < max_zoom => (sw >= 1 /\ sh >= 1 /\ ~Truncated(image))
           /\ scaled_width' = sw
           /\ scaled_height' = sh
           /\ scaled_img' = LevelRaster(image, sw, sh, zoom >= max_zoom)
           /\ cols' = CeilOfQuotient(sw, TILE_SIZE)
           /\ rows' = CeilOfQuotient(sh, TILE_SIZE)
    /\ resized' = IF zoom < max_zoom
                  THEN resized \cup {scaled_img'}
                  ELSE resized
    /\ dirs' = dirs \cup {ZoomDir(zoom)}
    /\ col' = 0
    /\ pc' = "col_loop"
    /\ UNCHANGED <<geomVars, files, saved, zoom, row, tileVars>>
    /\ UNCHANGED <<map_name, reported, failed, closed, error>>
    /\ UNCHANGED <<mainVars, rerunVars, toolVars>>

\* lines 178-189, Image.resize raises ValueError for a size with a zero
ResizeRaises ==
    /\ pc = "zoom_loop"
    /\ zoom < max_zoom
    /\ ~Truncated(image)
    /\ LET sw == ScaledSize(width, max_zoom, zoom)
           sh == ScaledSize(height, max_zoom, zoom)
       IN  /\ (sw < 1 \/ sh < 1)
           /\ scaled_width' = sw
           /\ scaled_height' = sh
    /\ dirs' = dirs \cup {ZoomDir(zoom)}
    /\ error' = "resize"
    /\ pc' = "raised"
    /\ UNCHANGED <<geomVars, files, saved, zoom, scaled_img, cols, rows,
                   col, row, tileVars>>
    /\ UNCHANGED <<map_name, reported, failed, resized, closed>>
    /\ UNCHANGED <<mainVars, rerunVars, toolVars>>

\* lines 178-189, Image.resize loads the pixel data, which raises
ResizeLoadRaises ==
    /\ pc = "zoom_loop"
    /\ zoom < max_zoom
    /\ Truncated(image)
    /\ scaled_width' = ScaledSize(width, max_zoom, zoom)
    /\ scaled_height' = ScaledSize(height, max_zoom, zoom)
    /\ dirs' = dirs \cup {ZoomDir(zoom)}
    /\ error' = "decode"
    /\ pc' = "raised"
    /\ UNCHANGED <<geomVars, files, saved, zoom, scaled_img, cols, rows,
                   col, row, tileVars>>
    /\ UNCHANGED <<map_name, reported, failed, resized, closed>>
    /\ UNCHANGED <<mainVars, rerunVars, toolVars>>

\* line 178, range(max_zoom + 1) exhausted: generate_tiles returns
Return ==
    /\ pc = "zoom_loop"
    /\ zoom > max_zoom
    /\ pc' = "done"
    /\ UNCHANGED <<geomVars, dirs, files, saved, levelVars, col, row,
                   tileVars>>
    /\ UNCHANGED <<runVars, mainVars, rerunVars, toolVars>>

\* lines 203-205
BeginColumn ==
    /\ pc = "col_loop"
    /\ col < cols
    /\ dirs' = dirs \cup {ColDir(zoom, col)}
    /\ row' = 0
    /\ pc' = "row_loop"
    /\ UNCHANGED <<geomVars, files, saved, levelVars, col, tileVars>>
    /\ UNCHANGED <<runVars, mainVars, rerunVars, toolVars>>

\* the end of a level that leaves its raster open
EndLevelKeepsRaster ==
    /\ pc = "col_loop"
    /\ col >= cols
    /\ zoom' = zoom + 1
    /\ pc' = "zoom_loop"
    /\ UNCHANGED <<geomVars, dirs, files, saved, scaled_width,
                   scaled_height, scaled_img, cols, rows, col, row, tileVars>>
    /\ UNCHANGED <<runVars, mainVars, rerunVars, toolVars>>

\* lines 241-245, range(cols) exhausted
EndLevel ==
    /\ pc = "col_loop"
    /\ col >= cols
    /\ closed' = IF zoom < max_zoom THEN closed \cup {scaled_img} ELSE closed
    /\ zoom' = zoom + 1
    /\ pc' = "zoom_loop"
    /\ UNCHANGED <<geomVars, dirs, files, saved, scaled_width,
                   scaled_height, scaled_img, cols, rows, col, row, tileVars>>
    /\ UNCHANGED <<map_name, reported, failed, resized, error>>
    /\ UNCHANGED <<mainVars, rerunVars, toolVars>>

\* lines 207-225
ExtractTile ==
    /\ pc = "row_loop"
    /\ row < rows
    /\ ~Truncated(scaled_img)
    /\ block' = TileBounds(col, row, scaled_width, scaled_height)
    /\ tile' = CropImage(scaled_img, block')
    /\ reported' = IF IsBlack(tile')
                   THEN reported \cup {<<zoom, col, row>>}
                   ELSE reported
    /\ pc' = "pad_tile"
    /\ UNCHANGED <<geomVars, dirs, files, saved, levelVars, col, row>>
    /\ UNCHANGED <<map_name, failed, resized, closed, error>>
    /\ UNCHANGED <<mainVars, rerunVars, toolVars>>

\* line 215: scaled_img.crop loads the pixel data, which raises
TileLoadRaises ==
    /\ pc = "row_loop"
    /\ row < rows
    /\ Truncated(scaled_img)
    /\ error' = "decode"
    /\ pc' = "raised"
    /\ UNCHANGED <<geomVars, dirs, files, saved, levelVars, col, row,
                   tileVars, map_name, reported, failed, resized, closed>>
    /\ UNCHANGED <<mainVars, rerunVars, toolVars>>

\* line 207, range(rows) exhausted
EndColumn ==
    /\ pc = "row_loop"
    /\ row >= rows
    /\ col' = col + 1
    /\ pc' = "col_loop"
    /\ UNCHANGED <<geomVars, dirs, files, saved, levelVars, row, tileVars>>
    /\ UNCHANGED <<runVars, mainVars, rerunVars, toolVars>>

\* lines 227-231
PadTile ==
    /\ pc = "pad_tile"
    /\ tile' = PadTileImage(tile)
    /\ pc' = "save"
    /\ UNCHANGED <<geomVars, dirs, files, saved, levelVars, col, row,
                   block>>
    /\ UNCHANGED <<runVars, mainVars, rerunVars, toolVars>>

\* lines 233-239
SaveTile ==
    /\ pc = "save"
    /\ LET path == TilePath(zoom, col, row)
       IN  files' = [p \in DOMAIN files \cup {path} |->
                        IF p = path THEN tile ELSE files[p]]
    /\ saved' = Append(saved, <<zoom, col, row>>)
    /\ row' = row + 1
    /\ pc' = "row_loop"
    /\ UNCHANGED <<geomVars, dirs, levelVars, col, tileVars>>
    /\ UNCHANGED <<runVars, mainVars, rerunVars, toolVars>>

\* a failed tile.save that the loop records and steps over
SaveRaisesAndContinues ==
    /\ pc = "save"
    /\ failed' = failed \cup {<<zoom, col, row>>}
    /\ row' = row + 1
    /\ pc' = "row_loop"
    /\ UNCHANGED <<geomVars, dirs, files, saved, levelVars, col, tileVars>>
    /\ UNCHANGED <<map_name, reported, resized, closed, error>>
    /\ UNCHANGED <<mainVars, rerunVars, toolVars>>

\* line 235: tile.save raises (the sink cannot write the file); nothing in
\* generate_tiles catches it
SaveRaises ==
    /\ pc = "save"
    /\ failed' = failed \cup {<<zoom, col, row>>}
    /\ error' = "save"
    /\ pc' = "raised"
    /\ UNCHANGED <<geomVars, dirs, files, saved, levelVars, col, row,
                   tileVars>>
    /\ UNCHANGED <<map_name, reported, resized, closed>>
    /\ UNCHANGED <<mainVars, rerunVars, toolVars>>

\* a call generate_tiles(img, name, mz, output_dir, ms): lines 129-152
EnterGenerateTiles(img, name, ms, mz) ==
    /\ raster' = img
    /\ map_name' = name
    /\ map_size' = ms
    /\ max_zoom' = mz
    /\ crop_box' = NoCrop
    /\ cropped' = NoImage
    /\ image' = NoImage
    /\ width' = 0
    /\ height' = 0
    /\ saved' = <<>>
    /\ reported' = {}
    /\ failed' = {}
    /\ resized' = {}
    /\ closed' = {}
    /\ error' = "none"
    /\ zoom' = 0
    /\ col' = 0
    /\ row' = 0
    /\ scaled_width' = 0
    /\ scaled_height' = 0
    /\ scaled_img' = NoImage
    /\ cols' = 0
    /\ rows' = 0
    /\ block' = <<0, 0, 0, 0>>
    /\ tile' = NoImage
    /\ pc' = "crop"

\* the locals of generate_tiles before its first statement
EntryLocals ==
    /\ crop_box = NoCrop
    /\ cropped = NoImage
    /\ image = NoImage
    /\ width = 0
    /\ height = 0
    /\ saved = <<>>
    /\ reported = {}
    /\ failed = {}
    /\ resized = {}
    /\ closed = {}
    /\ error = "none"
    /\ zoom = 0
    /\ col = 0
    /\ row = 0
    /\ scaled_width = 0
    /\ scaled_height = 0
    /\ scaled_img = NoImage
    /\ cols = 0
    /\ rows = 0
    /\ block = <<0, 0, 0, 0>>
    /\ tile = NoImage

\* main before its loop has selected anything
NoBatch ==
    /\ maps_to_process = <<>>
    /\ args_image = NoImage
    /\ map_index = 0
    /\ outcomes = <<>>
    /\ deleted = {}

\* the state generate_tiles is entered in, on an empty output directory
Entry(img, ms, mz) ==
    /\ pc = "crop"
    /\ raster = img
    /\ map_name = "everon"
    /\ map_size = ms
    /\ max_zoom = mz
    /\ dirs = {}
    /\ files = <<>>
    /\ EntryLocals
    /\ NoBatch
    /\ run = 1
    /\ first = <<>>
    /\ ToolsIdle

\* ----------------------------------------------------- the pipeline runs
\* <<raster width, raster height, declared size>> of the maps processed
MapInputs ==
    { <<300, 300, <<256, 128>>>>,
      <<300, 300, <<128, 256>>>>,
      <<256, 256, <<300, 300>>>>,
      <<256, 256, <<256, 128>>>>,
      <<5, 4, NoMapSize>>,
      <<300, 1, <<256, 128>>>>,
      <<512, 300, NoMapSize>> }

\* <<raster width, raster height, declared size, dx, dy>> of the maps
\* processed whose raster is black in [0, dx) x [0, dy)
DarkInputs ==
    { <<600, 3, <<600, 3>>, 300, 3>> }

Init ==
    \/ \E in \in MapInputs, mz \in 0..MaxZoomBound :
          Entry(OpenImage(in[1], in[2]), in[3], mz)
    \/ \E in \in DarkInputs, mz \in 0..MaxZoomBound :
          Entry(OpenRaster(in[1], in[2], in[4], in[5], "ok"), in[3], mz)

Next ==
    \/ AutoCrop
    \/ PadCanvas
    \/ MakeMapDir
    \/ BeginLevel
    \/ ResizeRaises
    \/ Return
    \/ BeginColumn
    \/ EndLevel
    \/ ExtractTile
    \/ EndColumn
    \/ PadTile
    \/ SaveTile

Spec == Init /\ [][Next]_vars

\* --------------------------------------------------- geometry specification
GeomDims ==
    (1..MaxSmallDim) \cup
    {m * CROP_TOLERANCE + k : m \in 1..MaxTolMult, k \in {0 - 1, 0, 1}}

InitGeom ==
    \E w \in GeomDims, h \in GeomDims,
       ms \in (GeomDims \X GeomDims) \cup {NoMapSize} :
        Entry(OpenImage(w, h), ms, 0)

NextGeom == AutoCrop \/ PadCanvas

SpecGeom == InitGeom /\ [][NextGeom]_vars

\* ------------------------------------------------------------------ main
\* a path that does not exist
MissingFile == [op |-> "missing", w |-> 0, h |-> 0]

\* path p is directory d or lies below it
Under(p, d) == Len(p) >= Len(d) /\ SubSeq(p, 1, Len(d)) = d

\* line 342: tile_dir.exists() and any(tile_dir.iterdir())
TilesExist(namespace) ==
    /\ TileDir(namespace) \in dirs
    /\ \E p \in dirs \cup DOMAIN files :
          Under(p, TileDir(namespace)) /\ Len(p) = Len(TileDir(namespace)) + 1

\* lines 361-391: what acquiring the source image of registry entry m comes
\* to under the --image argument arg: an opened image, a continue, or an
\* exception of Image.open outside every try
Acquire(m, arg) ==
    IF arg # NoImage
    THEN IF arg = MissingFile
         THEN [kind |-> "continue", img |-> NoImage]
         ELSE IF arg.data = "unidentified"
              THEN [kind |-> "raise", img |-> NoImage]
              ELSE [kind |-> "image", img |-> arg]
    ELSE IF m.source.at # "local"
         THEN IF /\ m.source.at = "cdn"
                 /\ m.source.img # NoImage
                 /\ m.source.img.data # "unidentified"
              THEN [kind |-> "image", img |-> m.source.img]
              ELSE [kind |-> "continue", img |-> NoImage]
         ELSE IF m.source.img.data = "unidentified"
              THEN [kind |-> "raise", img |-> NoImage]
              ELSE [kind |-> "image", img |-> m.source.img]

\* map_data of the current iteration of the loop of line 333
map_data == maps_to_process[map_index]

genVars == <<geomVars, saved, levelVars, col, row, tileVars, runVars>>

\* the loop goes on with the next map after printing what for this one
Continue(what) ==
    /\ outcomes' = Append(outcomes, <<map_data.namespace, what>>)
    /\ map_index' = map_index + 1
    /\ pc' = "main_loop"
    /\ UNCHANGED <<maps_to_process, args_image, deleted, rerunVars, toolVars>>

\* lines 333-342: a map whose tile directory is missing or empty
NextMap ==
    /\ pc = "main_loop"
    /\ map_index <= Len(maps_to_process)
    /\ ~TilesExist(map_data.namespace)
    /\ pc' = "acquire"
    /\ UNCHANGED <<genVars, dirs, files, mainVars, rerunVars, toolVars>>

\* lines 342-354: tiles exist and the answer is not 'y'
SkipExisting ==
    /\ pc = "main_loop"
    /\ map_index <= Len(maps_to_process)
    /\ TilesExist(map_data.namespace)
    /\ Continue("skipped")
    /\ UNCHANGED <<genVars, dirs, files>>

\* lines 342-359: tiles exist and the answer is 'y': shutil.rmtree(tile_dir)
DeleteExisting ==
    /\ pc = "main_loop"
    /\ map_index <= Len(maps_to_process)
    /\ TilesExist(map_data.namespace)
    /\ LET tile_dir == TileDir(map_data.namespace)
       IN  /\ dirs' = {d \in dirs : ~Under(d, tile_dir)}
           /\ files' = [p \in {q \in DOMAIN files : ~Under(q, tile_dir)} |->
                           files[p]]
    /\ deleted' = deleted \cup {map_data.namespace}
    /\ pc' = "acquire"
    /\ UNCHANGED <<genVars, maps_to_process, args_image, map_index, outcomes,
                   rerunVars, toolVars>>

\* lines 364-366, 380-383, 385-387: no image, continue
AcquireSkips ==
    /\ pc = "acquire"
    /\ Acquire(map_data, args_image).kind = "continue"
    /\ Continue("no image")
    /\ UNCHANGED <<genVars, dirs, files>>

\* lines 368, 391: Image.open raises outside the try of line 393, which
\* ends main
AcquireRaises ==
    /\ pc = "acquire"
    /\ Acquire(map_data, args_image).kind = "raise"
    /\ pc' = "crashed"
    /\ UNCHANGED <<genVars, dirs, files, mainVars, rerunVars, toolVars>>

\* the declared size handed on as it stands in the registry
CropSizeOfRegistry(m) == m.size

\* lines 395-398: crop_size, the declared size handed to generate_tiles
CropSize(m) ==
    IF m.namespace = "seitenbuch" THEN <<4000, 2000>> ELSE m.size

\* lines 393-407: the image is opened and generate_tiles is called
CallGenerateTiles ==
    /\ pc = "acquire"
    /\ Acquire(map_data, args_image).kind = "image"
    /\ EnterGenerateTiles(Acquire(map_data, args_image).img,
                          map_data.namespace,
                          CropSize(map_data),
                          map_data.max_zoom)
    /\ UNCHANGED <<dirs, files, mainVars, rerunVars, toolVars>>

\* lines 409-410: generate_tiles returned
MapComplete ==
    /\ pc = "done"
    /\ closed' = closed \cup {raster}
    /\ Continue("complete")
    /\ UNCHANGED <<geomVars, saved, levelVars, col, row, tileVars, dirs,
                   files, map_name, reported, failed, resized, error>>

\* lines 412-415: generate_tiles raised
MapError ==
    /\ pc = "raised"
    /\ Continue("error")
    /\ UNCHANGED <<genVars, dirs, files>>

\* line 333: maps_to_process is exhausted, main returns
ExitMain ==
    /\ pc = "main_loop"
    /\ map_index > Len(maps_to_process)
    /\ pc' = "exit"
    /\ UNCHANGED <<genVars, dirs, files, mainVars, rerunVars, toolVars>>

\* the namespaces of the registry all_arma_maps.json, in its order
Namespaces == <<"everon", "arland", "seitenbuch">>

\* registry entries: declared size, max_zoom, and where the source image
\* is: a local sat_full.png, a CDN url (NoImage when the download raises),
\* or nowhere
MapConfigs ==
    { [size |-> <<5, 4>>, max_zoom |-> 1,
       source |-> [at |-> "local", img |-> OpenImage(5, 4)]],
      [size |-> <<400, 200>>, max_zoom |-> 0,
       source |-> [at |-> "local", img |-> OpenImage(4, 4)]],
      [size |-> <<400, 200>>, max_zoom |-> 0,
       source |-> [at |-> "local",
                   img |-> OpenRaster(4, 4, 0, 0, "truncated")]],
      [size |-> <<5, 4>>, max_zoom |-> 0,
       source |-> [at |-> "local",
                   img |-> OpenRaster(5, 4, 0, 0, "truncated")]],
      [size |-> <<4, 4>>, max_zoom |-> 1,
       source |-> [at |-> "local",
                   img |-> OpenRaster(4, 4, 0, 0, "truncated")]],
      [size |-> <<4, 4>>, max_zoom |-> 0,
       source |-> [at |-> "local",
                   img |-> OpenRaster(4, 4, 0, 0, "truncated")]],
      [size |-> <<5, 4>>, max_zoom |-> 0,
       source |-> [at |-> "local",
                   img |-> OpenRaster(5, 4, 0, 0, "unidentified")]],
      [size |-> <<5, 4>>, max_zoom |-> 0,
       source |-> [at |-> "none", img |-> NoImage]],
      [size |-> <<5, 4>>, max_zoom |-> 0,
       source |-> [at |-> "cdn", img |-> NoImage]],
      [size |-> <<5, 4>>, max_zoom |-> 0,
       source |-> [at |-> "cdn", img |-> OpenImage(5, 4)]],
      [size |-> <<5, 4>>, max_zoom |-> 0 - 1,
       source |-> [at |-> "local", img |-> OpenImage(5, 4)]],
      [size |-> <<0, 4>>, max_zoom |-> 0,
       source |-> [at |-> "local", img |-> OpenImage(5, 4)]],
      [size |-> <<2, 1>>, max_zoom |-> 1,
       source |-> [at |-> "local", img |-> OpenImage(2, 1)]],
      [size |-> <<4, 4>>, max_zoom |-> 0,
       source |-> [at |-> "local", img |-> OpenImage(4, 4)]] }

\* the --image argument: absent, a missing path, an image, a file that is
\* no image
ArgImages ==
    { NoImage, MissingFile, OpenImage(5, 4),
      OpenRaster(5, 4, 0, 0, "unidentified") }

\* the registry entry of the i-th namespace with configuration c
RegistryEntry(i, c) ==
    [namespace |-> Namespaces[i], size |-> c.size, max_zoom |-> c.max_zoom,
     source |-> c.source]

\* lines 292-330: one registry entry, or all of them
Selections(maps) == {maps} \cup {<<maps[i]>> : i \in DOMAIN maps}

\* tiles an earlier run left for the first namespace
OldDirs ==
    { TileDir(Namespaces[1]),
      Append(TileDir(Namespaces[1]), "0"),
      Append(Append(TileDir(Namespaces[1]), "0"), "0") }

OldFiles ==
    [p \in {Append(Append(Append(TileDir(Namespaces[1]), "0"), "0"),
                   "7.webp")} |-> NewImage(TILE_SIZE, TILE_SIZE)]

\* lines 277-331: main at the head of its loop
InitMain ==
    \E c1 \in MapConfigs, c2 \in MapConfigs, arg \in ArgImages,
       old \in BOOLEAN, second \in 2..Len(Namespaces) :
       \E selected \in Selections(<<RegistryEntry(1, c1),
                                     RegistryEntry(second, c2)>>) :
          /\ pc = "main_loop"
          /\ maps_to_process = selected
          /\ args_image = arg
          /\ map_index = 1
          /\ outcomes = <<>>
          /\ deleted = {}
          /\ dirs = {OutputDir} \cup (IF old THEN OldDirs ELSE {})
          /\ files = IF old THEN OldFiles ELSE <<>>
          /\ raster = NoImage
          /\ map_name = ""
          /\ map_size = NoMapSize
          /\ max_zoom = 0
          /\ EntryLocals
          /\ run = 1
          /\ first = <<>>
          /\ ToolsIdle

NextMain ==
    \/ Next
    \/ CropLoadRaises
    \/ PasteLoadRaises
    \/ ResizeLoadRaises
    \/ TileLoadRaises
    \/ SaveRaises
    \/ NextMap
    \/ SkipExisting
    \/ DeleteExisting
    \/ AcquireSkips
    \/ AcquireRaises
    \/ CallGenerateTiles
    \/ MapComplete
    \/ MapError
    \/ ExitMain

SpecMain == InitMain /\ [][NextMain]_vars

\* ------------------------------------------------- two runs, same inputs
\* generate_tiles is called a second time with the arguments of the first
\* call, on the output directory the first call left
CallAgain ==
    /\ pc \in {"done", "raised"}
    /\ run = 1
    /\ first' = [pc |-> pc, dirs |-> dirs, files |-> files, saved |-> saved,
                 reported |-> reported]
    /\ run' = 2
    /\ EnterGenerateTiles(raster, map_name, map_size, max_zoom)
    /\ UNCHANGED <<dirs, files, mainVars, toolVars>>

NextTwice == Next \/ CallAgain

SpecTwice == Init /\ [][NextTwice]_vars

\* ------------------------------------------------ the generate_tiles side
\* every variable of generate_tiles and its main
tileSideVars == <<pc, geomVars, dirs, files, saved, levelVars, col, row,
                  tileVars, runVars, mainVars, rerunVars>>

\* generate_tiles.py is not running
TilesIdle ==
    /\ pc = "idle"
    /\ raster = NoImage
    /\ map_name = ""
    /\ map_size = NoMapSize
    /\ max_zoom = 0
    /\ dirs = {}
    /\ files = <<>>
    /\ EntryLocals
    /\ NoBatch
    /\ run = 1
    /\ first = <<>>

\* --------------------------------------------- extract_mods_workshop.py
\* the mod ids of the workshop
ModIds == {"a", "b", "c"}

\* what extract_dependencies finds on a workshop page: up to two links
DependencyLists ==
    {<<>>} \cup {<<x>> : x \in ModIds} \cup {<<x, y>> : x, y \in ModIds}

\* what requests.get comes to for a workshop page: status 200, another
\* status, or an exception
PageStates == {"ok", "not found", "unreachable"}

\* the mod id on the command line (line 85); the ids are interchangeable
RootModIds == {"a"}

\* lines 80-87: main calls fetch_mod_details(root_mod_id, set())
InitCrawl ==
    \E graph \in [ModIds -> DependencyLists], web \in [ModIds -> PageStates],
       root \in RootModIds :
       /\ crawler = [pc |-> "call", dependencies |-> graph, web |-> web,
                     root_mod_id |-> root, mod_id |-> root, visited |-> {},
                     stack |-> <<>>, requests |-> <<>>, mods |-> <<>>]
       /\ deep_clone = Idle
       /\ enrichment = Idle
       /\ comparison = Idle
       /\ TilesIdle

\* a call of fetch_mod_details returns value: to the caller's extend of
\* line 75, or to main (line 87)
ReturnFromFetch(c, value) ==
    IF c.stack = <<>>
    THEN [c EXCEPT !.pc = "returned", !.mods = value]
    ELSE [c EXCEPT !.pc = "loop",
                   !.stack[Len(c.stack)].all_mods = @ \o value]

\* a visited mod listed once more instead of being left out
CrawlVisitedListedAgain ==
    /\ crawler.pc = "call"
    /\ crawler.mod_id \in crawler.visited
    /\ crawler' = ReturnFromFetch(crawler, <<crawler.mod_id>>)
    /\ UNCHANGED <<deep_clone, enrichment, comparison, tileSideVars>>

\* lines 53-54: the mod was visited
CrawlVisited ==
    /\ crawler.pc = "call"
    /\ crawler.mod_id \in crawler.visited
    /\ crawler' = ReturnFromFetch(crawler, <<>>)
    /\ UNCHANGED <<deep_clone, enrichment, comparison, tileSideVars>>

\* lines 55-58: the mod is marked visited and requests.get raises; nothing
\* catches it
CrawlRequestRaises ==
    /\ crawler.pc = "call"
    /\ crawler.mod_id \notin crawler.visited
    /\ crawler.web[crawler.mod_id] = "unreachable"
    /\ crawler' = [crawler EXCEPT
                     !.pc = "crashed",
                     !.visited = @ \cup {crawler.mod_id},
                     !.requests = Append(@, crawler.mod_id)]
    /\ UNCHANGED <<deep_clone, enrichment, comparison, tileSideVars>>

\* lines 55-61: the mod is marked visited and its page has another status
\* than 200
CrawlPageFails ==
    /\ crawler.pc = "call"
    /\ crawler.mod_id \notin crawler.visited
    /\ crawler.web[crawler.mod_id] = "not found"
    /\ crawler' = [ReturnFromFetch(crawler, <<>>) EXCEPT
                     !.visited = @ \cup {crawler.mod_id},
                     !.requests = Append(@, crawler.mod_id)]
    /\ UNCHANGED <<deep_clone, enrichment, comparison, tileSideVars>>

\* lines 55-73: the mod is marked visited, its page is read and
\* all_mods = [mod_data]
CrawlPage ==
    /\ crawler.pc = "call"
    /\ crawler.mod_id \notin crawler.visited
    /\ crawler.web[crawler.mod_id] = "ok"
    /\ crawler' = [crawler EXCEPT
                     !.pc = "loop",
                     !.visited = @ \cup {crawler.mod_id},
                     !.requests = Append(@, crawler.mod_id),
                     !.stack = Append(@,
                        [mod_id |-> crawler.mod_id,
                         dependencies |->
                            crawler.dependencies[crawler.mod_id],
                         all_mods |-> <<crawler.mod_id>>])]
    /\ UNCHANGED <<deep_clone, enrichment, comparison, tileSideVars>>

\* lines 74-75: the next dependency_id, and the recursive call
CrawlDependency ==
    /\ crawler.pc = "loop"
    /\ crawler.stack[Len(crawler.stack)].dependencies # <<>>
    /\ LET top == Len(crawler.stack)
       IN  crawler' = [crawler EXCEPT
                         !.pc = "call",
                         !.mod_id = Head(crawler.stack[top].dependencies),
                         !.stack[top].dependencies = Tail(@)]
    /\ UNCHANGED <<deep_clone, enrichment, comparison, tileSideVars>>

\* line 77: return all_mods
CrawlReturn ==
    /\ crawler.pc = "loop"
    /\ crawler.stack[Len(crawler.stack)].dependencies = <<>>
    /\ LET top == Len(crawler.stack)
       IN  crawler' =
             ReturnFromFetch([crawler EXCEPT !.stack = SubSeq(@, 1, top - 1)],
                             crawler.stack[top].all_mods)
    /\ UNCHANGED <<deep_clone, enrichment, comparison, tileSideVars>>

\* lines 89-92: mods.json is written
CrawlWrite ==
    /\ crawler.pc = "returned"
    /\ crawler' = [crawler EXCEPT !.pc = "written"]
    /\ UNCHANGED <<deep_clone, enrichment, comparison, tileSideVars>>

NextCrawl ==
    \/ CrawlVisited
    \/ CrawlRequestRaises
    \/ CrawlPageFails
    \/ CrawlPage
    \/ CrawlDependency
    \/ CrawlReturn
    \/ CrawlWrite

\* the interpreter runs the program to its end
SpecCrawl == InitCrawl /\ [][NextCrawl]_vars /\ WF_vars(NextCrawl)


\* ------------------------------------------------- deep_clone_server.py
\* what the HTTP session's get comes to: a 200 answer with a JSON body, a
\* connection error, another status, an empty body, a body that is no JSON
ResponseStates == {"ok", "unreachable", "status", "empty", "unparsable"}

\* the empty dict make_http_request returns on failure
NoData == [reforger |-> "none", mods |-> <<>>]

\* mod_manager.py lines 336-397: (success, data); every failure, the
\* exceptions of the request included, is caught and gives (False, {})
make_http_request(response, expect_json) ==
    IF response.state = "ok" \/ (response.state = "unparsable" /\ ~expect_json)
    THEN <<TRUE, response.data>>
    ELSE <<FALSE, NoData>>

\* mod_manager.py lines 416-420
make_api_request(response) ==
    LET answer == make_http_request(response, TRUE)
    IN  IF answer[1] THEN answer[2] ELSE NoData

\* mod_manager.py lines 446-467: the mods with a name, a version and an id
extract_mods_from_api_data(api_data) ==
    SelectSeq(api_data.mods,
              LAMBDA mod : mod.name # "" /\ mod.version # "" /\ mod.modId # "")

\* mod_manager.py lines 506-538: the mods, or [] when the answer is empty
fetch_mods_by_id(response) ==
    LET api_data == make_api_request(response)
    IN  IF api_data = NoData THEN <<>> ELSE extract_mods_from_api_data(api_data)

\* lines 184-211: the ModInfo objects as dicts, or [] after a warning;
\* fetch_mods_by_id raises nothing, so line 211 is never reached
fetch_mods_from_battlemetrics(response) ==
    LET mods_data == fetch_mods_by_id(response)
    IN  IF mods_data = <<>> THEN <<>>
        ELSE [i \in DOMAIN mods_data |->
                [modId |-> mods_data[i].modId, name |-> mods_data[i].name,
                 version |-> mods_data[i].version]]

\* lines 61-72: one entry per line of exactly three tab-separated parts
transform_server_txt_to_json(lines, remove_version) ==
    LET kept == SelectSeq(lines, LAMBDA parts : Len(parts) = 3)
    IN  [i \in DOMAIN kept |->
           [modId |-> kept[i][3], name |-> kept[i][1],
            version |-> IF remove_version THEN "" ELSE kept[i][2]]]

\* lines 277-279
RemoveVersion(mods, remove_version) ==
    [i \in DOMAIN mods |->
       [mods[i] EXCEPT !.version = IF remove_version THEN "" ELSE @]]

\* lines 117, 133, 135: {mod['modId'] for mod in mods}
ModIdSet(mods) == {mods[i].modId : i \in DOMAIN mods}

\* lines 120-126: the third part of every line of three parts
ServerTxtIds(lines) ==
    {lines[i][3] : i \in {j \in DOMAIN lines : Len(lines[j]) = 3}}

\* lines 132-135: a list, or the list under game.mods of a dict
ConfigMods(json_data) ==
    IF json_data.kind = "list" THEN json_data.mods
    ELSE IF json_data.kind = "nested" THEN json_data.mods
    ELSE <<>>

\* lines 142-143: list(set) in the order the set's iteration gives
ListsOf(set) ==
    {seq \in [1..Cardinality(set) -> set] :
        {seq[i] : i \in DOMAIN seq} = set}

\* the mods a server runs, as BattleMetrics lists them
ServerModEntries ==
    {[modId |-> "a", name |-> "A", version |-> "1"],
     [modId |-> "b", name |-> "B", version |-> "2"],
     [modId |-> "c", name |-> "C", version |-> ""]}

ShortLists(set) ==
    {<<>>} \cup {<<x>> : x \in set} \cup {<<x, y>> : x, y \in set}

\* the input_source: a BattleMetrics server behind the API, or a
\* server.txt file that may be missing
ServerSources ==
    {[battlemetrics |-> TRUE, exists |-> TRUE, lines |-> <<>>,
      response |-> [state |-> s, data |-> [reforger |-> "server", mods |-> m]]] :
        s \in ResponseStates, m \in ShortLists(ServerModEntries)}
    \cup
    {[battlemetrics |-> FALSE, exists |-> e, lines |-> l,
      response |-> [state |-> "unreachable", data |-> NoData]] :
        e \in BOOLEAN,
        l \in ShortLists({<<"A", "1", "a">>, <<"B", "2", "b">>, <<"C", "c">>})}

\* the file of --compare: absent (no --compare), unreadable, a list of
\* mods, or a dict with or without game.mods
NoCompare == [kind |-> "none", mods |-> <<>>]

ConfigEntries == {[modId |-> id] : id \in {"a", "b", "c"}}

CompareFiles ==
    {NoCompare, [kind |-> "malformed", mods |-> <<>>],
     [kind |-> "dict", mods |-> <<>>]}
    \cup {[kind |-> k, mods |-> m] :
            k \in {"list", "nested"}, m \in ShortLists(ConfigEntries)}

NoFile == [written |-> FALSE]

\* the variables of the other programs, at rest while this one runs
cloneRest == <<enrichment, crawler, comparison, tileSideVars>>

\* lines 249-256: the arguments are parsed
InitClone ==
    \E source \in ServerSources, compare \in CompareFiles,
       remove_version \in BOOLEAN, writable \in BOOLEAN :
       /\ deep_clone = [pc |-> "main", source |-> source,
                        compare |-> compare,
                        remove_version |-> remove_version,
                        writable |-> writable, mods |-> <<>>,
                        server_mods |-> {}, output |-> NoFile,
                        exit_code |-> 0]
       /\ enrichment = Idle
       /\ crawler = Idle
       /\ comparison = Idle
       /\ TilesIdle

\* lines 291-293: the exception is printed and sys.exit(1)
ExitOne == [deep_clone EXCEPT !.pc = "exit", !.exit_code = 1]

\* the end of the script is reached with what was written
ExitZero(content) ==
    [deep_clone EXCEPT !.pc = "exit",
                       !.output = [written |-> TRUE, content |-> content]]

\* lines 272-274: clone mode fetches the mods of the server
CloneFetch ==
    /\ deep_clone.pc = "main"
    /\ deep_clone.compare = NoCompare
    /\ deep_clone.source.battlemetrics
    /\ deep_clone' =
         [deep_clone EXCEPT
            !.pc = "write",
            !.mods = fetch_mods_from_battlemetrics(deep_clone.source.response)]
    /\ UNCHANGED cloneRest

\* lines 277-285: the mods are written to the output file
CloneWrite ==
    /\ deep_clone.pc = "write"
    /\ deep_clone.writable
    /\ deep_clone' =
         ExitZero(RemoveVersion(deep_clone.mods, deep_clone.remove_version))
    /\ UNCHANGED cloneRest

\* line 282: open raises
CloneWriteRaises ==
    /\ deep_clone.pc = "write"
    /\ ~deep_clone.writable
    /\ deep_clone' = ExitOne
    /\ UNCHANGED cloneRest

\* lines 286-289: the server.txt file is transformed
CloneFile ==
    /\ deep_clone.pc = "main"
    /\ deep_clone.compare = NoCompare
    /\ ~deep_clone.source.battlemetrics
    /\ deep_clone.source.exists
    /\ deep_clone.writable
    /\ deep_clone' =
         ExitZero(transform_server_txt_to_json(deep_clone.source.lines,
                                               deep_clone.remove_version))
    /\ UNCHANGED cloneRest

\* lines 62 and 75: one of the two opens raises
CloneFileRaises ==
    /\ deep_clone.pc = "main"
    /\ deep_clone.compare = NoCompare
    /\ ~deep_clone.source.battlemetrics
    /\ ~(deep_clone.source.exists /\ deep_clone.writable)
    /\ deep_clone' = ExitOne
    /\ UNCHANGED cloneRest

\* lines 114-126: compare_mods reads the ids of the server source
CompareSource ==
    /\ deep_clone.pc = "main"
    /\ deep_clone.compare # NoCompare
    /\ deep_clone.source.battlemetrics \/ deep_clone.source.exists
    /\ deep_clone' =
         [deep_clone EXCEPT
            !.pc = "compare",
            !.server_mods =
               IF deep_clone.source.battlemetrics
               THEN ModIdSet(fetch_mods_from_battlemetrics(
                                deep_clone.source.response))
               ELSE ServerTxtIds(deep_clone.source.lines)]
    /\ UNCHANGED cloneRest

\* line 121: open raises
CompareSourceRaises ==
    /\ deep_clone.pc = "main"
    /\ deep_clone.compare # NoCompare
    /\ ~deep_clone.source.battlemetrics
    /\ ~deep_clone.source.exists
    /\ deep_clone' = ExitOne
    /\ UNCHANGED cloneRest

\* lines 129-150 and 269-270: the config is read and the diff written
CompareConfig ==
    /\ deep_clone.pc = "compare"
    /\ deep_clone.compare.kind # "malformed"
    /\ deep_clone.writable
    /\ LET json_mods == ModIdSet(ConfigMods(deep_clone.compare))
           server_mods == deep_clone.server_mods
       IN  \E added \in ListsOf(json_mods \ server_mods),
              removed \in ListsOf(server_mods \ json_mods) :
              deep_clone' = ExitZero([added |-> added, removed |-> removed])
    /\ UNCHANGED cloneRest

\* lines 130 and 147: json.load or the open of the output raises
CompareConfigRaises ==
    /\ deep_clone.pc = "compare"
    /\ deep_clone.compare.kind = "malformed" \/ ~deep_clone.writable
    /\ deep_clone' = ExitOne
    /\ UNCHANGED cloneRest

NextClone ==
    \/ CloneFetch
    \/ CloneWrite
    \/ CloneWriteRaises
    \/ CloneFile
    \/ CloneFileRaises
    \/ CompareSource
    \/ CompareSourceRaises
    \/ CompareConfig
    \/ CompareConfigRaises

SpecClone == InitClone /\ [][NextClone]_vars


\* -------------------------------------- mod_manager.py, WorkshopEnrichment
\* the variables of the other programs, at rest while this one runs
enrichRest == <<deep_clone, crawler, comparison, tileSideVars>>

\* a mod of a list to enrich, and the ModInfo made from its workshop page
ListedMod(mod_id) == [mod_id |-> mod_id, source_file |-> "list", size |-> ""]

WorkshopMod(mod_id) ==
    [mod_id |-> mod_id, source_file |-> "workshop", size |-> "1 MB"]

NoCall == [mod_id |-> "", result |-> <<>>]

\* lines 548-552: a new instance; its caller is about to call it
InitEnrich ==
    /\ enrichment = [pc |-> "ready", workshop_cache |-> <<>>,
                     workshop_fetch_attempts |-> {}, requests |-> <<>>,
                     call |-> NoCall, caller |-> "main", mods |-> <<>>,
                     enriched_mods |-> <<>>]
    /\ deep_clone = Idle
    /\ crawler = Idle
    /\ comparison = Idle
    /\ TilesIdle

\* the instance is called from outside, or from the loop of line 643 with
\* the next mod of the list
CalledWith(mod_id) ==
    \/ enrichment.pc = "ready"
    \/ /\ enrichment.pc = "enrich"
       /\ enrichment.mods # <<>>
       /\ mod_id = Head(enrichment.mods).mod_id

\* fetch_workshop_mod_details returns workshop_mods to its caller
Returned(e, mod_id, workshop_mods) ==
    [e EXCEPT !.pc = "returned",
              !.caller = IF e.pc = "enrich" THEN "enrich" ELSE "main",
              !.call = [mod_id |-> mod_id, result |-> workshop_mods]]

\* lines 597-598 without line 606: the failed attempt is not remembered
FetchFailsForgotten(mod_id) ==
    /\ CalledWith(mod_id)
    /\ mod_id \notin DOMAIN enrichment.workshop_cache
    /\ mod_id \notin enrichment.workshop_fetch_attempts
    /\ enrichment' =
         Returned([enrichment EXCEPT !.requests = Append(@, mod_id)],
                  mod_id, <<>>)
    /\ UNCHANGED enrichRest

\* lines 589-599: the mod is in the cache
FetchCached(mod_id) ==
    /\ CalledWith(mod_id)
    /\ mod_id \in DOMAIN enrichment.workshop_cache
    /\ enrichment' =
         Returned(enrichment, mod_id, <<enrichment.workshop_cache[mod_id]>>)
    /\ UNCHANGED enrichRest

\* lines 601-603: the mod was attempted before and is not in the cache
FetchSkipped(mod_id) ==
    /\ CalledWith(mod_id)
    /\ mod_id \notin DOMAIN enrichment.workshop_cache
    /\ mod_id \in enrichment.workshop_fetch_attempts
    /\ enrichment' = Returned(enrichment, mod_id, <<>>)
    /\ UNCHANGED enrichRest

\* lines 605-611: the attempt is recorded and the request fails, or lines
\* 613-631: the page is got and its parsing raises
FetchFails(mod_id) ==
    /\ CalledWith(mod_id)
    /\ mod_id \notin DOMAIN enrichment.workshop_cache
    /\ mod_id \notin enrichment.workshop_fetch_attempts
    /\ enrichment' =
         Returned([enrichment EXCEPT
                     !.workshop_fetch_attempts = @ \cup {mod_id},
                     !.requests = Append(@, mod_id)],
                  mod_id, <<>>)
    /\ UNCHANGED enrichRest

\* lines 605-627: the attempt is recorded, the page got and cached
FetchCaches(mod_id) ==
    /\ CalledWith(mod_id)
    /\ mod_id \notin DOMAIN enrichment.workshop_cache
    /\ mod_id \notin enrichment.workshop_fetch_attempts
    /\ enrichment' =
         Returned([enrichment EXCEPT
                     !.workshop_fetch_attempts = @ \cup {mod_id},
                     !.requests = Append(@, mod_id),
                     !.workshop_cache = (mod_id :> WorkshopMod(mod_id)) @@ @],
                  mod_id, <<WorkshopMod(mod_id)>>)
    /\ UNCHANGED enrichRest

\* the outside caller has its answer
FetchDone ==
    /\ enrichment.pc = "returned"
    /\ enrichment.caller = "main"
    /\ enrichment' = [enrichment EXCEPT !.pc = "ready"]
    /\ UNCHANGED enrichRest

\* lines 633-641: enrich_mods_with_workshop_data(mods)
EnrichBegin(mods) ==
    /\ enrichment.pc = "ready"
    /\ enrichment' = [enrichment EXCEPT !.pc = "enrich", !.mods = mods,
                                        !.enriched_mods = <<>>]
    /\ UNCHANGED enrichRest

\* lines 651-669: the mod with the size of the workshop, or the mod itself
EnrichMod ==
    /\ enrichment.pc = "returned"
    /\ enrichment.caller = "enrich"
    /\ LET mod == Head(enrichment.mods)
           workshop_mods == enrichment.call.result
       IN  enrichment' =
             [enrichment EXCEPT
                !.pc = "enrich",
                !.mods = Tail(@),
                !.enriched_mods =
                   Append(@, IF workshop_mods # <<>>
                             THEN [mod EXCEPT !.size = workshop_mods[1].size]
                             ELSE mod)]
    /\ UNCHANGED enrichRest

\* lines 671-681: return enriched_mods
EnrichEnd ==
    /\ enrichment.pc = "enrich"
    /\ enrichment.mods = <<>>
    /\ enrichment' = [enrichment EXCEPT !.pc = "ready"]
    /\ UNCHANGED enrichRest

NextEnrich ==
    \/ \E mod_id \in ModIds : FetchCached(mod_id)
    \/ \E mod_id \in ModIds : FetchSkipped(mod_id)
    \/ \E mod_id \in ModIds : FetchFails(mod_id)
    \/ \E mod_id \in ModIds : FetchCaches(mod_id)
    \/ FetchDone
    \/ \E mods \in ShortLists({ListedMod(id) : id \in ModIds}) :
          EnrichBegin(mods)
    \/ EnrichMod
    \/ EnrichEnd

SpecEnrich == InitEnrich /\ [][NextEnrich]_vars


\* ----------------------------------------- mod_manager.py, ModComparison
\* the variables of the other programs, at rest while this one runs
comparisonRest == <<deep_clone, enrichment, crawler, tileSideVars>>

\* the mod names, in the order sorted() gives them
ModNames == <<"X", "Y", "Z">>

\* lines 47-54: the fields of ModInfo the comparison reads
ModInfos ==
    {[name |-> n, version |-> v, mod_id |-> id] :
        n \in {ModNames[i] : i \in DOMAIN ModNames},
        v \in {"1", "2"}, id \in {"a", "b"}}

\* lines 977-978: {mod.name: mod for mod in mods}; the last mod of a name
\* stays
DictOfMods(mods) ==
    [n \in {mods[i].name : i \in DOMAIN mods} |->
       mods[CHOOSE i \in DOMAIN mods :
              /\ mods[i].name = n
              /\ \A j \in DOMAIN mods : mods[j].name = n => j <= i]]

\* line 713: sorted(names)
Sorted(names) == SelectSeq(ModNames, LAMBDA n : n \in names)

\* lines 708-726 with line 719 alone deciding: identical on equal versions
analyze_mod_differences_by_version(mods1_dict, mods2_dict) ==
    LET common == Sorted(DOMAIN mods1_dict \cap DOMAIN mods2_dict)
        same == SelectSeq(common,
                   LAMBDA n : mods1_dict[n].version = mods2_dict[n].version)
        differ == SelectSeq(common,
                   LAMBDA n : mods1_dict[n].version # mods2_dict[n].version)
    IN  [identical_mods |-> [i \in DOMAIN same |-> mods1_dict[same[i]]],
         version_diff_mods |->
            [i \in DOMAIN differ |->
               <<mods1_dict[differ[i]], mods2_dict[differ[i]]>>],
         unique_to_source1 |-> DOMAIN mods1_dict \ DOMAIN mods2_dict,
         unique_to_source2 |-> DOMAIN mods2_dict \ DOMAIN mods1_dict]

\* lines 696-726
analyze_mod_differences(mods1_dict, mods2_dict) ==
    LET common == Sorted(DOMAIN mods1_dict \cap DOMAIN mods2_dict)
        Match(n) == /\ mods1_dict[n].version = mods2_dict[n].version
                    /\ mods1_dict[n].mod_id = mods2_dict[n].mod_id
        same == SelectSeq(common, LAMBDA n : Match(n))
        differ == SelectSeq(common, LAMBDA n : ~Match(n))
    IN  [identical_mods |-> [i \in DOMAIN same |-> mods1_dict[same[i]]],
         version_diff_mods |->
            [i \in DOMAIN differ |->
               <<mods1_dict[differ[i]], mods2_dict[differ[i]]>>],
         unique_to_source1 |-> DOMAIN mods1_dict \ DOMAIN mods2_dict,
         unique_to_source2 |-> DOMAIN mods2_dict \ DOMAIN mods1_dict]

NoComparison ==
    [identical_mods |-> <<>>, version_diff_mods |-> <<>>,
     unique_to_source1 |-> {}, unique_to_source2 |-> {}]

\* lines 960-962: unified_comparison(mods1, mods2, ...) is called
InitComparison ==
    \E mods1, mods2 \in ShortLists(ModInfos) :
       /\ comparison = [pc |-> "call", mods1 |-> mods1, mods2 |-> mods2,
                        mods1_dict |-> <<>>, mods2_dict |-> <<>>,
                        comparison_data |-> NoComparison]
       /\ deep_clone = Idle
       /\ enrichment = Idle
       /\ crawler = Idle
       /\ TilesIdle

\* lines 977-982: the two lists become dicts
ComparisonDicts ==
    /\ comparison.pc = "call"
    /\ comparison' = [comparison EXCEPT
                        !.pc = "dicts",
                        !.mods1_dict = DictOfMods(comparison.mods1),
                        !.mods2_dict = DictOfMods(comparison.mods2)]
    /\ UNCHANGED comparisonRest

\* lines 984-988: the dicts are analysed
ComparisonAnalyze ==
    /\ comparison.pc = "dicts"
    /\ comparison' = [comparison EXCEPT
                        !.pc = "analyzed",
                        !.comparison_data =
                           analyze_mod_differences(comparison.mods1_dict,
                                                   comparison.mods2_dict)]
    /\ UNCHANGED comparisonRest

NextComparison ==
    \/ ComparisonDicts
    \/ ComparisonAnalyze

SpecComparison == InitComparison /\ [][NextComparison]_vars


\* ------------------------------------------------- claims on the geometry
\* the raster and the declared size auto_crop_padding was called with
RasterW == raster.w

RasterH == raster.h

Cropped == pc # "crop" /\ map_size # NoMapSize

WithinTolerance ==
    /\ Abs(RasterW - map_size[1]) < CROP_TOLERANCE
    /\ Abs(RasterH - map_size[2]) < CROP_TOLERANCE

\* square raster, rectangular declared size, not within tolerance
SquarePadded ==
    /\ ~WithinTolerance
    /\ RasterW = RasterH
    /\ map_size[1] # map_size[2]

\* v is a / b rounded to a nearest integer (either way at a half)
IsRounded(v, a, b) == 2 * Abs(v * b - a) <= b

\* v is a / b truncated
IsTruncated(v, a, b) == v * b <= a /\ a < (v + 1) * b

\* the box auto_crop_padding returned the raster cut to
ReturnedBox ==
    IF crop_box = NoCrop THEN <<0, 0, RasterW, RasterH>> ELSE crop_box

\* C1 as stated: for a square raster whose declared size is rectangular and
\* not within tolerance, the crop box is anchored at (0,0) and is
\* (w, round(w * dh / dw)) if dw > dh, else (round(h * dw / dh), h).
C1_CropBoxRounded ==
    (Cropped /\ SquarePadded) =>
        /\ crop_box # NoCrop
        /\ crop_box[1] = 0 /\ crop_box[2] = 0
        /\ IF map_size[1] > map_size[2]
           THEN /\ crop_box[3] = RasterW
                /\ IsRounded(crop_box[4], RasterW * map_size[2], map_size[1])
           ELSE /\ crop_box[4] = RasterH
                /\ IsRounded(crop_box[3], RasterH * map_size[1], map_size[2])

\* C1 amended: in that case the crop box is anchored at (0,0) and is
\* (w, floor(w * dh / dw)) if dw > dh, else (floor(h * dw / dh), h): the
\* computed axis is the proportional length truncated, not rounded.
C1_CropBoxTruncated ==
    (Cropped /\ SquarePadded) =>
        /\ crop_box # NoCrop
        /\ crop_box[1] = 0 /\ crop_box[2] = 0
        /\ IF map_size[1] > map_size[2]
           THEN /\ crop_box[3] = RasterW
                /\ IsTruncated(crop_box[4], RasterW * map_size[2],
                               map_size[1])
           ELSE /\ crop_box[4] = RasterH
                /\ IsTruncated(crop_box[3], RasterH * map_size[1],
                               map_size[2])

\* a landscape crop whose proportional height has a fraction above a half
C1_Witness ==
    /\ Cropped /\ SquarePadded
    /\ map_size[1] > map_size[2]
    /\ crop_box # NoCrop
    /\ 2 * ((RasterW * map_size[2]) % map_size[1]) > map_size[1]
    /\ crop_box[4] >= 1

\* C2: auto_crop_padding crops iff the raster is square, the declared size
\* is not, and the two are not within tolerance on both axes; in every
\* other case it returns the raster itself, dimensions unchanged.
C2_CropsIffSquarePadded ==
    Cropped =>
        /\ SquarePadded <=> crop_box # NoCrop
        /\ SquarePadded =>
              /\ cropped = CropImage(raster, crop_box)
              /\ Size(cropped) # Size(raster)
        /\ ~SquarePadded =>
              /\ cropped = raster
              /\ Size(cropped) = <<RasterW, RasterH>>

\* a square raster with a rectangular declared size, left uncropped because
\* both axes are within tolerance although one axis alone would not be
C2_Witness ==
    /\ Cropped
    /\ WithinTolerance
    /\ RasterW = RasterH
    /\ map_size[1] # map_size[2]
    /\ RasterW > CROP_TOLERANCE
    /\ cropped = raster

\* C3: the box auto_crop_padding returns is anchored at (0,0), lies inside
\* the raster and has width >= 1 and height >= 1.
C3_ValidCropBox ==
    Cropped =>
        /\ ReturnedBox[1] = 0 /\ ReturnedBox[2] = 0
        /\ ReturnedBox[3] <= RasterW /\ ReturnedBox[4] <= RasterH
        /\ ReturnedBox[3] >= 1 /\ ReturnedBox[4] >= 1

RECURSIVE IsPow2(_)
IsPow2(n) == n >= 1 /\ (n = 1 \/ (n % 2 = 0 /\ IsPow2(n \div 2)))

\* p is the power-of-two target the claim allows for dimension n
IsPow2Target(n, p) ==
    IF n > 0
    THEN /\ IsPow2(p)
         /\ p >= n
         /\ p < 2 * n
         /\ IsPow2(n) => p = n
    ELSE p = 1

\* C4: the power-of-two target of a dimension n > 0 is a power of two, is
\* >= n, is < 2n and is n itself when n is a power of two; for n = 0 it
\* is 1.
C4_NextPow2 ==
    pc = "mkdir" =>
        /\ IsPow2Target(cropped.w, width)
        /\ IsPow2Target(cropped.h, height)

\* one axis is rounded up to the next power of two, the other is already
\* a power of two and is kept
C4_Witness ==
    /\ pc = "mkdir"
    /\ cropped.w > 2 /\ ~IsPow2(cropped.w) /\ width > cropped.w
    /\ cropped.h > 1 /\ IsPow2(cropped.h) /\ height = cropped.h

\* --------------------------------------------------- claims on the canvas
\* the smallest power of two >= n, found by doubling from p
RECURSIVE Pow2AtLeast(_, _)
Pow2AtLeast(p, n) == IF p >= n THEN p ELSE Pow2AtLeast(2 * p, n)

\* C5: after the padding step the canvas is (nextPow2(w), nextPow2(h)), each
\* axis rounded on its own; inside the post-crop raster's extent it holds the
\* raster's pixels, elsewhere the background colour; a raster whose
\* dimensions are both powers of two is the canvas itself.
C5_CanvasPadding ==
    pc = "mkdir" =>
        /\ Size(image) = <<Pow2AtLeast(1, cropped.w), Pow2AtLeast(1, cropped.h)>>
        /\ <<width, height>> = Size(image)
        /\ \A x \in 0..(image.w - 1), y \in 0..(image.h - 1) :
              Pixel(image, x, y) =
                  IF x < cropped.w /\ y < cropped.h
                  THEN Pixel(cropped, x, y)
                  ELSE BACKGROUND
        /\ (IsPow2(cropped.w) /\ IsPow2(cropped.h)) => image = cropped

\* a cropped landscape raster padded on both axes to a canvas that is not
\* square
C5_Witness ==
    /\ pc = "mkdir"
    /\ crop_box # NoCrop
    /\ cropped.w < image.w /\ cropped.h < image.h
    /\ image.h < image.w
    /\ Pixel(image, cropped.w - 1, cropped.h - 1) # BACKGROUND
    /\ Pixel(image, cropped.w, 0) = BACKGROUND

\* --------------------------------------------------- claims on the levels
\* a level's size has been computed for the current zoom
LevelSized == pc \in {"col_loop", "row_loop", "pad_tile", "save", "raised"}

\* C6: the level size is an exact division of the canvas size,
\* levelWidth * 2^(maxZoom - zoom) = canvasWidth and the same for the
\* height, and at zoom = maxZoom it is the canvas size.
C6_ExactLevelSize ==
    LevelSized =>
        /\ scaled_width * 2 ^ (max_zoom - zoom) = width
        /\ scaled_height * 2 ^ (max_zoom - zoom) = height
        /\ zoom = max_zoom =>
              (scaled_width = width /\ scaled_height = height)

\* n halved k times, each time floored
RECURSIVE Halved(_, _)
Halved(n, k) == IF k = 0 THEN n ELSE Halved(n \div 2, k - 1)

\* ceil(n / TILE_SIZE)
TilesAlong(n) == (n + TILE_SIZE - 1) \div TILE_SIZE

\* the tiles the claim names for a run on the current canvas
ExpectedTiles ==
    { <<z, c, r>> \in (0..max_zoom) \X (0..(TilesAlong(width) - 1))
                                    \X (0..(TilesAlong(height) - 1)) :
        /\ c < TilesAlong(Halved(width, max_zoom - z))
        /\ r < TilesAlong(Halved(height, max_zoom - z)) }

SavedSet == {saved[i] : i \in DOMAIN saved}

\* tiles/<namespace>_sat/<zoom>/<col>/<row>.webp
TileFile(z, c, r) ==
    <<"tiles", map_name \o "_sat", ToString(z), ToString(c),
      ToString(r) \o ".webp">>

\* C7: over a complete run the tiles written are exactly the (zoom, col,
\* row) with zoom in 0..maxZoom, col < ceil(levelWidth/256) and
\* row < ceil(levelHeight/256); zoom ascends, and each is written once.
C7_TilesWritten ==
    pc = "done" =>
        /\ SavedSet = ExpectedTiles
        /\ DOMAIN files = {TileFile(t[1], t[2], t[3]) : t \in ExpectedTiles}
        /\ Len(saved) = Cardinality(ExpectedTiles)
        /\ \A i, j \in DOMAIN saved : i < j => saved[i][1] <= saved[j][1]
        /\ \A z \in 0..max_zoom :
              Cardinality({t \in SavedSet : t[1] = z}) =
                  TilesAlong(Halved(width, max_zoom - z))
                    * TilesAlong(Halved(height, max_zoom - z))

\* a complete run of three levels whose finest level has several columns
\* and several rows
C7_Witness ==
    /\ pc = "done"
    /\ max_zoom = 2
    /\ <<2, 1, 1>> \in SavedSet
    /\ <<0, 0, 0>> \in SavedSet
    /\ <<0, 1, 0>> \notin SavedSet

\* C8: the block of tile (col, row) of an lw x lh level is
\* [col*256, min((col+1)*256, lw)) x [row*256, min((row+1)*256, lh)); it is
\* not empty, lies inside the level raster, and is smaller than 256x256
\* only in the last column or the last row.
C8_TileBlock ==
    pc = "pad_tile" =>
        /\ block[1] = col * TILE_SIZE
        /\ block[2] = row * TILE_SIZE
        /\ block[3] = Min((col + 1) * TILE_SIZE, scaled_width)
        /\ block[4] = Min((row + 1) * TILE_SIZE, scaled_height)
        /\ block[1] < block[3] /\ block[2] < block[4]
        /\ block[3] <= scaled_img.w /\ block[4] <= scaled_img.h
        /\ Size(tile) = <<block[3] - block[1], block[4] - block[2]>>
        /\ block[3] - block[1] <= TILE_SIZE
        /\ block[4] - block[2] <= TILE_SIZE
        /\ block[3] - block[1] < TILE_SIZE => col = cols - 1
        /\ block[4] - block[2] < TILE_SIZE => row = rows - 1

\* a full-width block in a column that is not the last, and a partial block
C8_Witness ==
    /\ pc = "pad_tile"
    /\ cols > 1 /\ col = 0
    /\ block[3] - block[1] = TILE_SIZE
    /\ block[4] - block[2] < TILE_SIZE

\* C9: the tile handed to the writer is 256x256; inside the extracted
\* block it holds the block's pixels, elsewhere the background colour; a
\* full-size block is handed over as extracted.
C9_TilePadding ==
    pc = "save" =>
        LET bw == block[3] - block[1]
            bh == block[4] - block[2]
            extracted == CropImage(scaled_img, block)
        IN  /\ Size(tile) = <<TILE_SIZE, TILE_SIZE>>
            /\ \A x \in 0..(TILE_SIZE - 1), y \in 0..(TILE_SIZE - 1) :
                  Pixel(tile, x, y) =
                      IF x < bw /\ y < bh
                      THEN Pixel(scaled_img, block[1] + x, block[2] + y)
                      ELSE BACKGROUND
            /\ (bw = TILE_SIZE /\ bh = TILE_SIZE) => tile = extracted

\* a partial block of a resampled level, padded on both axes
C9_Witness ==
    /\ pc = "save"
    /\ zoom < max_zoom
    /\ block[3] - block[1] < TILE_SIZE
    /\ block[4] - block[2] < TILE_SIZE
    /\ tile.op = "paste"
    /\ Pixel(tile, 0, 0) # BACKGROUND
    /\ Pixel(tile, TILE_SIZE - 1, TILE_SIZE - 1) = BACKGROUND

\* C10: the tiles of the maxZoom level, placed at (col*256, row*256) and
\* restricted to the canvas extent, reproduce the canvas pixel for pixel:
\* every canvas pixel is in the tile at its place, and no raster pixel
\* shows up at any other place of any tile.
C10_RoundTrip ==
    pc = "done" =>
        /\ \A x \in 0..(width - 1), y \in 0..(height - 1) :
              LET path == TileFile(max_zoom, x \div TILE_SIZE,
                                   y \div TILE_SIZE)
              IN  /\ path \in DOMAIN files
                  /\ Pixel(files[path], x % TILE_SIZE, y % TILE_SIZE)
                        = Pixel(image, x, y)
        /\ \A c \in 0..(TilesAlong(width) - 1),
              r \in 0..(TilesAlong(height) - 1) :
              TileFile(max_zoom, c, r) \in DOMAIN files =>
                \A tx \in 0..(TILE_SIZE - 1), ty \in 0..(TILE_SIZE - 1) :
                    LET v == Pixel(files[TileFile(max_zoom, c, r)], tx, ty)
                    IN  v # BACKGROUND =>
                          v = Pixel(image, c * TILE_SIZE + tx,
                                    r * TILE_SIZE + ty)

\* a complete run whose maxZoom level has several tiles, one of them
\* holding both raster pixels and padding
C10_Witness ==
    /\ pc = "done"
    /\ TileFile(max_zoom, 1, 1) \in DOMAIN files
    /\ Pixel(files[TileFile(max_zoom, 1, 1)], 0, 0) = Pixel(raster, 256, 256)
    /\ Pixel(files[TileFile(max_zoom, 1, 1)], 255, 255) = BACKGROUND

\* ---------------------------------------------------- claims on the tiles
\* every pixel of the tile handed to the writer is the background colour
AllBackground(t) ==
    \A x \in 0..(TILE_SIZE - 1), y \in 0..(TILE_SIZE - 1) :
        Pixel(t, x, y) = BACKGROUND

LevelMade == pc \in {"col_loop", "row_loop", "pad_tile", "save"}

\* C13: the raster of every level zoom < maxZoom is resampled from the
\* canvas itself, never from the raster of another level, and the raster of
\* level maxZoom is the canvas itself, not a resampled copy.
C13_ResampledFromCanvas ==
    /\ LevelMade =>
          IF zoom < max_zoom
          THEN /\ scaled_img.op = "resize"
               /\ scaled_img.src = image
               /\ Size(scaled_img) = <<scaled_width, scaled_height>>
               /\ scaled_img \in resized
          ELSE /\ scaled_img = image
               /\ scaled_img \notin resized
    /\ \A r \in resized : r.src = image /\ r.src.op # "resize"
    /\ image.op # "resize"

\* the tiles of level maxZoom = 2 being cut from a padded canvas after two
\* coarser levels were resampled
C13_Witness ==
    /\ pc = "save"
    /\ max_zoom = 2
    /\ zoom = max_zoom
    /\ Cardinality(resized) = 2
    /\ scaled_img = image
    /\ image.op = "paste"

\* ------------------------------------------------ claims on the failures
\* main is between two calls of generate_tiles
BetweenMaps == pc \in {"main_loop", "acquire", "exit", "crashed"}

\* the last thing main printed for a map
LastOutcome == outcomes[Len(outcomes)]

\* C14: when the write of one tile fails, every remaining tile of that
\* level and every tile of the later levels is still attempted: once the
\* map is dealt with, each tile of the pyramid was written or failed.
C14_LoopContinuesAfterFailure ==
    (BetweenMaps /\ error = "save") =>
        SavedSet \cup failed = ExpectedTiles

\* C15: a map during whose processing a tile write failed is never
\* reported as complete.
C15_NoCompleteAfterFailure ==
    (BetweenMaps /\ outcomes # <<>> /\ LastOutcome[2] = "complete") =>
        /\ failed = {}
        /\ error = "none"
        /\ LastOutcome[1] = map_name
        /\ SavedSet = ExpectedTiles

\* a map whose second level failed to be written after its first level
\* was written, reported as an error
C15_Witness ==
    /\ pc = "main_loop"
    /\ error = "save"
    /\ failed = {<<1, 0, 0>>}
    /\ SavedSet = {<<0, 0, 0>>}
    /\ LastOutcome = <<map_name, "error">>

\* the configuration generate_tiles was called with is invalid
InvalidConfig ==
    \/ max_zoom < 0
    \/ map_size # NoMapSize /\ (map_size[1] <= 0 \/ map_size[2] <= 0)

\* C16: for an invalid configuration (max zoom negative, or a declared
\* size component <= 0) generate_tiles makes no output directory and
\* writes no tile, and the map is not reported as complete.
C16_RefusesInvalidConfig ==
    (map_name # "" /\ InvalidConfig) =>
        /\ TileDir(map_name) \notin dirs
        /\ \A p \in DOMAIN files : ~Under(p, TileDir(map_name))
        /\ \A i \in DOMAIN outcomes : outcomes[i] # <<map_name, "complete">>

\* C17: in a batch run no failure on one map keeps main from the maps
\* after it: main ends only by leaving its loop, and then every selected
\* map was attempted or skipped, in order.
C17_BatchContinues ==
    /\ pc # "crashed"
    /\ pc = "exit" =>
          /\ Len(outcomes) = Len(maps_to_process)
          /\ \A i \in DOMAIN outcomes :
                outcomes[i][1] = maps_to_process[i].namespace

\* C18: a failure to decode the source image is raised before any stage
\* of the pipeline has run, and leaves no directory or tile of that map.
C18_DecodeFailsBeforePipeline ==
    error = "decode" =>
        /\ TileDir(map_name) \notin dirs
        /\ \A p \in dirs \cup DOMAIN files : ~Under(p, TileDir(map_name))

Live == resized \ closed

\* C20: at most one resampled level raster is live besides the canvas; the
\* raster of level z < maxZoom is live while its tiles are cut and written
\* and is released before level z + 1 is resampled; the canvas and the
\* raster it was made from are never released by a level or a tile step.
C20_OneLevelLive ==
    /\ Cardinality(Live) <= 1
    /\ Live \subseteq {scaled_img}
    /\ (LevelMade /\ zoom < max_zoom) => Live = {scaled_img}
    /\ (LevelMade /\ zoom = max_zoom) => Live = {}
    /\ pc \in {"zoom_loop", "done"} => Live = {}
    /\ image \notin closed
    /\ raster \notin closed
    /\ closed \subseteq resized

\* the finest of three levels about to be made, both coarser rasters
\* released
C20_Witness ==
    /\ pc = "zoom_loop"
    /\ max_zoom = 2
    /\ zoom = 2
    /\ Cardinality(closed) = 2
    /\ Cardinality(resized) = 2
    /\ Len(saved) >= 2

\* generate_tiles is running for map_data
InGenerateTiles == ~BetweenMaps /\ map_index \in DOMAIN maps_to_process

\* C21: the declared size generate_tiles receives is (4000, 2000) for
\* namespace 'seitenbuch', whatever the registry states, and the
\* registry's size unchanged for every other namespace.
C21_SizeOverride ==
    InGenerateTiles =>
        /\ map_name = map_data.namespace
        /\ map_name = "seitenbuch" => map_size = <<4000, 2000>>
        /\ map_name # "seitenbuch" => map_size = map_data.size

\* a square seitenbuch raster that the registry's size would leave whole,
\* cropped to landscape
C21_Witness ==
    /\ InGenerateTiles
    /\ pc = "pad"
    /\ map_name = "seitenbuch"
    /\ map_data.size = <<4, 4>>
    /\ raster.w = 4 /\ raster.h = 4
    /\ crop_box = <<0, 0, 4, 2>>
    /\ AutoCropBox(raster.w, raster.h, map_data.size) = NoCrop

\* ------------------------------------------- claims on the level pyramid
\* C22: from one level to the next the level width, the level height and
\* the tile grid (cols, rows) never decrease, so the dimensions of level
\* z1 are at most those of level z2 for z1 <= z2.
C22_LevelsMonotone ==
    [][/\ scaled_width' >= scaled_width
       /\ scaled_height' >= scaled_height
       /\ cols' >= cols
       /\ rows' >= rows]_vars

\* the finest of three levels, larger than the level before it and with a
\* larger grid than the coarsest
C22_Witness ==
    /\ pc = "col_loop"
    /\ max_zoom = 2
    /\ zoom = 2
    /\ scaled_width = 2 * ScaledSize(width, max_zoom, 1)
    /\ cols = 2 /\ rows = 2
    /\ <<0, 0, 0>> \in SavedSet /\ <<0, 1, 0>> \notin SavedSet

\* the tiles level 0 has written
ZeroLevelTiles == {t \in SavedSet : t[1] = 0}

\* level 0 is finished
ZeroLevelDone == pc = "zoom_loop" /\ zoom >= 1

\* C23, as stated: whenever the canvas width or height exceeds 256, level
\* 0 produces more than one tile, for every maxZoom.
C23_ZeroLevelManyTiles ==
    (ZeroLevelDone /\ (width > TILE_SIZE \/ height > TILE_SIZE)) =>
        Cardinality(ZeroLevelTiles) > 1

\* C23, amended: level 0 produces more than one tile exactly when the
\* canvas width or height divided by 2^maxZoom (floored) exceeds 256;
\* for maxZoom = 0 that is when the canvas exceeds 256 on an axis.
C23_ZeroLevelTiles ==
    ZeroLevelDone =>
        /\ Cardinality(ZeroLevelTiles) > 1 <=>
              \/ width \div (2 ^ max_zoom) > TILE_SIZE
              \/ height \div (2 ^ max_zoom) > TILE_SIZE
        /\ max_zoom = 0 =>
              (Cardinality(ZeroLevelTiles) > 1 <=>
                  (width > TILE_SIZE \/ height > TILE_SIZE))

\* level 0 of a 512x512 canvas with maxZoom = 1, written as a single tile
C23_Witness ==
    /\ ZeroLevelDone
    /\ max_zoom = 1
    /\ width = 2 * TILE_SIZE /\ height = 2 * TILE_SIZE
    /\ ZeroLevelTiles = {<<0, 0, 0>>}

\* C28: every level 0..maxZoom has width and height >= 1 and produces at
\* least one tile: no level is resampled to a zero dimension and no zoom
\* directory is left without tiles, also when a canvas dimension is below
\* 2^maxZoom.
C28_EveryLevelHasTiles ==
    /\ pc # "raised"
    /\ \A z \in 0..max_zoom :
          /\ ScaledSize(width, max_zoom, z) >= 1 \/ pc \in {"crop", "pad"}
          /\ ScaledSize(height, max_zoom, z) >= 1 \/ pc \in {"crop", "pad"}
    /\ pc = "done" =>
          \A z \in 0..max_zoom :
              /\ ZoomDir(z) \in dirs
              /\ \E t \in SavedSet : t[1] = z

\* C29: a map's tile directory is deleted only on the answer 'y', and
\* whenever it was deleted, generate_tiles is started for that map in the
\* same run: main does not go on to the next map, or end, without it.
C29_DeletedThenRegenerated ==
    /\ \A i \in DOMAIN outcomes :
          outcomes[i][1] \in deleted =>
              outcomes[i][2] \in {"complete", "error"}
    /\ pc = "crashed" => map_data.namespace \notin deleted

\* ------------------------------------------- claims on the mod crawler
\* the elements of a sequence
Range(seq) == {seq[i] : i \in DOMAIN seq}

\* no element of the sequence occurs twice
NoDuplicates(seq) == \A i, j \in DOMAIN seq : seq[i] = seq[j] => i = j

\* the crawler has ended
CrawlEnded == crawler.pc \in {"written", "crashed"}

\* C27, as stated: each mod id is fetched at most once, and the list
\* returned has the root first and no mod id twice.
C27_RootFirst ==
    /\ NoDuplicates(crawler.requests)
    /\ crawler.pc = "written" =>
          /\ crawler.mods # <<>>
          /\ crawler.mods[1] = crawler.root_mod_id
          /\ NoDuplicates(crawler.mods)

\* C27, amended: fetch_mod_details ends on every dependency graph, cycles
\* and self-dependencies included; each mod id is requested at most once;
\* the list returned holds no mod id twice, has the root first when the
\* root's page was read, and is empty when the root's page had another
\* status than 200.
C27_CrawlTerminates ==
    /\ [](/\ NoDuplicates(crawler.requests)
          /\ crawler.pc = "written" =>
                /\ NoDuplicates(crawler.mods)
                /\ Range(crawler.mods) \subseteq Range(crawler.requests)
                /\ crawler.web[crawler.root_mod_id] = "ok" =>
                      (crawler.mods # <<>> /\
                       crawler.mods[1] = crawler.root_mod_id)
                /\ crawler.web[crawler.root_mod_id] # "ok" =>
                      crawler.mods = <<>>)
    /\ <>CrawlEnded

\* a crawl over a cycle a -> b -> a with a self-dependency, ended with
\* the root first
C27_Witness ==
    /\ crawler.pc = "written"
    /\ crawler.root_mod_id = "a"
    /\ crawler.dependencies["a"] = <<"b", "a">>
    /\ crawler.dependencies["b"] = <<"a", "c">>
    /\ crawler.dependencies["c"] = <<"c", "b">>
    /\ crawler.mods = <<"a", "b", "c">>

\* ---------------------------------------- claims on deep_clone_server.py
\* the script ended in clone mode for a BattleMetrics server
ClonedFromBattleMetrics ==
    /\ deep_clone.pc = "exit"
    /\ deep_clone.compare = NoCompare
    /\ deep_clone.source.battlemetrics

\* C24: when the BattleMetrics request fails, clone mode exits with code 1
\* and writes no output; it exits with code 0 only when the server's mods
\* were fetched.
C24_ApiFailureExitsOne ==
    ClonedFromBattleMetrics =>
        /\ deep_clone.source.response.state # "ok" =>
              (deep_clone.exit_code = 1 /\ deep_clone.output = NoFile)
        /\ deep_clone.exit_code = 0 =>
              deep_clone.source.response.state = "ok"

\* the ids of the mods of the server source: of the server behind the API,
\* or of the lines of server.txt
SourceIds ==
    IF deep_clone.source.battlemetrics
    THEN ModIdSet(deep_clone.source.response.data.mods)
    ELSE ServerTxtIds(deep_clone.source.lines)

\* C25: the diff compare_mods writes has 'added' = the ids of the config
\* that the server source lacks and 'removed' = the ids of the server
\* source that the config lacks, disjoint and without duplicates, for a
\* list config and for a game.mods config.
C25_ExactDifferences ==
    (/\ deep_clone.pc = "exit"
     /\ deep_clone.compare.kind \in {"list", "nested"}
     /\ deep_clone.output # NoFile) =>
        LET diff == deep_clone.output.content
            json_ids == ModIdSet(deep_clone.compare.mods)
        IN  /\ Range(diff.added) = json_ids \ SourceIds
            /\ Range(diff.removed) = SourceIds \ json_ids
            /\ Range(diff.added) \cap Range(diff.removed) = {}
            /\ NoDuplicates(diff.added)
            /\ NoDuplicates(diff.removed)

\* ---------------------------------------- claims on WorkshopEnrichment
\* this step is a call of fetch_workshop_mod_details(mod_id)
FetchCall(mod_id) ==
    /\ enrichment.pc \in {"ready", "enrich"}
    /\ enrichment'.pc = "returned"
    /\ enrichment'.call.mod_id = mod_id

\* C26: each mod_id is requested over HTTP at most once: a cached id is
\* answered from the cache, an id whose fetch failed gets [] without a new
\* request, and every key of workshop_cache is in workshop_fetch_attempts.
C26_OneRequestPerMod ==
    /\ [](/\ NoDuplicates(enrichment.requests)
          /\ DOMAIN enrichment.workshop_cache
                \subseteq enrichment.workshop_fetch_attempts
          /\ Range(enrichment.requests) = enrichment.workshop_fetch_attempts)
    /\ [][\A mod_id \in ModIds :
            (FetchCall(mod_id) /\
             mod_id \in enrichment.workshop_fetch_attempts) =>
               /\ enrichment'.requests = enrichment.requests
               /\ enrichment'.call.result =
                    IF mod_id \in DOMAIN enrichment.workshop_cache
                    THEN <<enrichment.workshop_cache[mod_id]>>
                    ELSE <<>>]_vars

\* mod a failed, mod b was cached afterwards, and a call for a has just
\* returned [] from inside enrich_mods_with_workshop_data
C26_Witness ==
    /\ enrichment.pc = "returned"
    /\ enrichment.caller = "enrich"
    /\ enrichment.requests = <<"a", "b">>
    /\ DOMAIN enrichment.workshop_cache = {"b"}
    /\ enrichment.call = [mod_id |-> "a", result |-> <<>>]
    /\ enrichment.enriched_mods # <<>>

\* ------------------------------------------- claims on ModComparison
\* the names of the identical mods and of the mods that differ
IdenticalNames ==
    {comparison.comparison_data.identical_mods[i].name :
        i \in DOMAIN comparison.comparison_data.identical_mods}

VersionDiffNames ==
    {comparison.comparison_data.version_diff_mods[i][1].name :
        i \in DOMAIN comparison.comparison_data.version_diff_mods}

\* the three sets are disjoint and their union is names
PartitionOf(names, unique) ==
    /\ names = IdenticalNames \cup VersionDiffNames \cup unique
    /\ IdenticalNames \cap VersionDiffNames = {}
    /\ IdenticalNames \cap unique = {}
    /\ VersionDiffNames \cap unique = {}

\* C30: analyze_mod_differences partitions the names of each source into
\* identical, version_diff and unique; a common name is identical iff
\* version and mod_id are both equal; len(identical) + len(version_diff) +
\* len(unique_to_source1) is the number of names of source 1.
C30_NamesPartitioned ==
    comparison.pc = "analyzed" =>
        LET data == comparison.comparison_data
            d1 == comparison.mods1_dict
            d2 == comparison.mods2_dict
        IN  /\ PartitionOf(DOMAIN d1, data.unique_to_source1)
            /\ PartitionOf(DOMAIN d2, data.unique_to_source2)
            /\ Len(data.identical_mods) = Cardinality(IdenticalNames)
            /\ Len(data.version_diff_mods) = Cardinality(VersionDiffNames)
            /\ \A n \in DOMAIN d1 \cap DOMAIN d2 :
                  n \in IdenticalNames <=>
                     (d1[n].version = d2[n].version /\
                      d1[n].mod_id = d2[n].mod_id)
            /\ Len(data.identical_mods) + Len(data.version_diff_mods)
                  + Cardinality(data.unique_to_source1)
               = Cardinality(DOMAIN d1)

\* two lists with a mod of equal version and another id, an identical mod
\* and a mod of source 1 alone, one name listed twice
C30_Witness ==
    /\ comparison.pc = "analyzed"
    /\ comparison.mods1 = <<[name |-> "X", version |-> "1", mod_id |-> "a"],
                            [name |-> "X", version |-> "1", mod_id |-> "b"]>>
    /\ comparison.mods2 = <<[name |-> "X", version |-> "1", mod_id |-> "a"],
                            [name |-> "Y", version |-> "1", mod_id |-> "a"]>>
    /\ VersionDiffNames = {"X"}
    /\ comparison.comparison_data.unique_to_source2 = {"Y"}

====
